---- MODULE Spec2Model ----
(***************************************************************************)
(* Rotating-star potential library (rot_star.h):                           *)
(*   Omega = 1/sqrt(x^2+y^2+z^2) + 1/2 omega^2 (x^2+y^2)                    *)
(*                                                                         *)
(* Numbers.  Omega0, omega, t and every value stored in an output array    *)
(* are exact rationals <<n, d>> (d > 0, lowest terms); areas and volumes   *)
(* are kept in units of pi, so utils::M_4PI is <<4, 1>>.  The quantities   *)
(* the code obtains by rounded iteration (the Horner sums and the RK4      *)
(* state s, A, V, ...) are fixed-point integers in units of 1/Scale.       *)
(* Products of reals are evaluated in one canonical association, so the    *)
(* model follows the real-number reading of the expressions and not the    *)
(* last-bit rounding of IEEE doubles; the one rounding it carries is that  *)
(* of the exponent literal 2./3 of critical_potential.                     *)
(*                                                                         *)
(* Widget table of the GUI (phoebe_gui_types.c): a hash table of chained   *)
(* buckets; pointers are indices into the heaps of widgets and of bucket   *)
(* nodes, 0 is NULL, and every heap object counts the calls of free on it. *)
(***************************************************************************)
EXTENDS Integers, Sequences, FiniteSets, TLC

\* ------------------------------------------------------------------ bounds
\* binary digits kept after the point by the fixed-point quantities
Prec == 15
\* the RK4 loop runs 2^LogSteps iterations (the source shifts by 16)
LogSteps == 2
\* the mask argument is drawn from 0..MaxChoice
MaxChoice == 5
\* the caller stops appending to a vector holding more than MaxPoints points
MaxPoints == 4
\* lagrange_point and critical_potential are called with omega == 0 and
\* omega == +-(p/q)^3, p, q in 1..MaxRoot
MaxRoot == 3
\* a widget table is given at most MaxWidgets widgets before it is freed
MaxWidgets == 3
\* widget names have at most MaxName characters
MaxName == 3

Scale == 2^Prec
One == Scale

\* --------------------------------------------------------------- rationals
Abs(x) == IF x < 0 THEN -x ELSE x

RECURSIVE GCD(_, _)
GCD(a, b) == IF b = 0 THEN a ELSE GCD(b, a % b)

\* n/d in lowest terms with a positive denominator (d # 0)
Rat(n, d) ==
  LET g == GCD(Abs(n), Abs(d))
      sg == IF d < 0 THEN -1 ELSE 1
  IN  <<sg * (n \div g), sg * (d \div g)>>

Whole(k) == <<k, 1>>

Mul(a, b) ==
  LET g1 == GCD(Abs(a[1]), b[2])
      g2 == GCD(Abs(b[1]), a[2])
  IN  Rat((a[1] \div g1) * (b[1] \div g2), (a[2] \div g2) * (b[2] \div g1))

Inv(a) == IF a[1] < 0 THEN <<-a[2], -a[1]>> ELSE <<a[2], a[1]>>

Div(a, b) == Mul(a, Inv(b))

Add(a, b) == Rat(a[1] * b[2] + b[1] * a[2], a[2] * b[2])

Neg(a) == <<-a[1], a[2]>>

Less(a, b) == a[1] * b[2] < b[1] * a[2]

\* ------------------------------------------------------------- fixed point
\* Every operation rounds its exact result to the nearest multiple of
\* 1/Scale, as a double operation rounds to the nearest double.  Products
\* and quotients are formed limb by limb so that no intermediate value
\* leaves the integer range.

\* the sign of a product or quotient of a and b
Sgn(a, b) == IF (a < 0) = (b < 0) THEN 1 ELSE -1

\* a/n rounded to the nearest integer, n > 0
RDiv(a, n) == Sgn(a, 1) * ((2 * Abs(a) + n) \div (2 * n))

\* the quotient and remainder d of a division by y, carried on by a group
\* of digits of weight g
Digits(d, y, g) == <<d[1] * g + (d[2] * g) \div y, (d[2] * g) % y>>

\* <<floor(a * Scale / b), its remainder>>, b > 0; the digits after
\* the point are taken in two groups
ScaledDiv(a, b) ==
  Digits(Digits(<<a \div b, a % b>>, b, 2^(Prec \div 2)),
         b, Scale \div 2^(Prec \div 2))

\* a quotient d with its remainder by y, rounded to nearest
Nearest(d, y) == d[1] + (IF 2 * d[2] >= y THEN 1 ELSE 0)

\* x*y/Scale rounded, x >= 0, y >= 0
MulNat(x, y) ==
  (x \div Scale) * (y \div Scale) * Scale
    + (x \div Scale) * (y % Scale) + (x % Scale) * (y \div Scale)
    + (((x % Scale) \div 256) * (y % Scale)
         + (((x % Scale) % 256) * (y % Scale) + Scale \div 2) \div 256)
        \div (Scale \div 256)

\* |a|*|b|/Scale rounded, with the sign of a*b
FMul(a, b) == Sgn(a, b) * MulNat(Abs(a), Abs(b))

\* |a|*Scale/|b| rounded, with the sign of a/b (b # 0)
FDiv(a, b) == Sgn(a, b) * Nearest(ScaledDiv(Abs(a), Abs(b)), Abs(b))

\* floor(sqrt(a * Scale)) by Newton's iteration from x >= sqrt(a * Scale)
RECURSIVE Newton(_, _)
NewtonStep(a, x, z) == IF z >= x THEN x ELSE Newton(a, z)

Newton(a, x) == NewtonStep(a, x, (x + ScaledDiv(a, x)[1]) \div 2)

\* r == floor(sqrt(a * Scale)) moved to the nearest integer
SqrtUp(d, r) == IF d[1] = r /\ d[2] > 0 THEN r + 1 ELSE r

SqrtNearest(a, r) == SqrtUp(ScaledDiv(a, r + 1), r)

\* std::sqrt on a fixed-point argument a >= 0: sqrt(a * Scale) rounded
FSqrt(a) ==
  IF a = 0 THEN 0
  ELSE SqrtNearest(a, Newton(a, IF a < Scale THEN Scale ELSE a))

\* a rational r rounded to the fixed-point grid
ToFix(r) == Nearest(ScaledDiv(r[1], r[2]), r[2])

\* a fixed-point quantity as an exact rational
FromFix(x) == Rat(x, Scale)

\* --------------------------------------------------------------- constants
\* utils::M_4PI and utils::M_2PI, in units of pi
M_4PI == <<4, 1>>
M_2PI == <<2, 1>>

\* t in [0, t_crit], t_crit = 8/27
t_crit == <<8, 27>>
\* the analytic approximation is used for t < 0.1
t_series == <<1, 10>>

\* number of RK4 steps, const int m = 1 << LogSteps
m == 2^LogSteps

\* a decimal literal ip.hhhhhhhhllllllll as <<ip, hhhhhhhh, llllllll>>
area_a ==
  << <<1, 0, 0>>, <<0, 66666666, 66666666>>, <<1, 0, 0>>,
     <<1, 94285714, 28571428>>, <<4, 31428571, 42857140>>,
     <<10, 39826839, 82683980>>, <<26, 48877788, 87778900>>,
     <<70, 22541902, 54190300>>, <<191, 86657706, 57039000>>,
     <<536, 73830918, 9828000>>, <<1536, 1622542, 82043000>> >>

area_volume_a ==
  << <<1, 0, 0>>, <<1, 0, 0>>, <<1, 60000000, 0>>,
     <<3, 14285714, 28571430>>, <<6, 93333333, 33333340>>,
     <<16, 48484848, 48484840>>, <<41, 30269730, 26973040>>,
     <<107, 56923076, 92307700>>, <<288, 62434895, 83333000>>,
     <<793, 3125000, 0>>, <<2230, 11103642, 45130000>> >>

volume_a ==
  << <<1, 0, 0>>, <<1, 0, 0>>, <<1, 60000000, 0>>,
     <<3, 14285714, 28571430>>, <<6, 93333333, 33333340>>,
     <<16, 48484848, 48484840>>, <<41, 30269730, 26973040>>,
     <<107, 56923076, 92307700>>, <<288, 62434895, 83333000>>,
     <<793, 3125000, 0>>, <<2230, 11103642, 45130000>> >>

\* a literal rounded to the fixed-point grid
LitFix(c) == c[1] * Scale + RDiv((c[2] \div 10000) * Scale, 10000)

\* a[0] + t*(a[1] + t*(a[2] + ... + t*a[n])), a given from index k on
RECURSIVE Horner(_, _, _)
Horner(a, t, k) ==
  IF k = Len(a) THEN a[k] ELSE a[k] + FMul(t, Horner(a, t, k + 1))

\* the polynomial of a coefficient table at fixed-point t
Series(tab, t) == Horner([k \in 1..Len(tab) |-> LitFix(tab[k])], t, 1)

\* a[1] + t*(2*a[2] + t*(3*a[3] + ... + t*10*a[10]))
dSeries(tab, t) ==
  Horner([k \in 1..(Len(tab) - 1) |-> k * LitFix(tab[k + 1])], t, 1)

\* ------------------------------------------------------------------ inputs
\* parameter pairs <<Omega0, omega>> the caller works with
Pairs ==
  { <<Whole(10), Whole(0)>>,    \* omega == 0
    <<<<3, 2>>, Whole(0)>>,     \* omega == 0
    <<Whole(1), Whole(1)>>,     \* t = 1
    <<Whole(1), Whole(2)>>,     \* t = 4
    <<<<3, 2>>, Whole(1)>>,     \* t = 8/27
    <<Whole(2), Whole(1)>>,     \* t = 1/8
    <<<<7, 2>>, Whole(3)>>,     \* t = 72/343
    <<Whole(10), Whole(10)>>,   \* t = 1/10
    <<<<21, 2>>, Whole(10)>> }  \* t = 800/9261

\* the pairs the caller of points_on_x_axis works with: the cubic of each
\* further pair has rational roots
PointPairs ==
  Pairs \cup
  { <<Whole(6), Whole(8)>>,      \* roots 1/4, 1/4, -1/2
    <<<<13, 2>>, Whole(6)>>,     \* roots 1/6, 1/2, -2/3
    <<<<27, 2>>, Whole(27)>>,    \* roots 1/9, 1/9, -2/9
    <<Whole(3), Whole(2)>> }     \* roots 1, (-1 +- sqrt(3))/2

\* what an output slot may hold before any call: <<k, 0>> is no number
Stale == {<<1, 0>>, <<2, 0>>}

Choices == 0..MaxChoice

\* choice & 1u, choice & 2u
Bit1(c) == c % 2 = 1
Bit2(c) == (c \div 2) % 2 = 1

NoSolution == "rotstar::area_volume:There is no solution for equator.\n"

\* a void function hands nothing back
Void == "void"

\* what the return statement of outcome r hands back: each is a plain
\* return, or the end of the function body
Returns(r) == Void

VARIABLES
  Omega0, omega,    \* the caller's parameter pair
  av, res, points,  \* the caller's output arrays and vector
  fn,               \* the function entered last
  choice, trimming, \* its arguments
  pc,               \* "idle": returned, "rk4": inside the RK4 loop
  outcome,          \* the return statement the last call left by
  wrote,            \* slots of its output array the last call stored to
  cerr,             \* what the last call printed on std::cerr
  ret,              \* what the last call handed back
  i, v, s,          \* locals of the RK4 loop
  A, V,             \* accumulators of area_volume
  Vol, dVoldOmega,  \* accumulators of volume
  GUI_wt,           \* the widget table: its allocation and its buckets
  widget_heap,      \* the GUI_widget objects allocated for the table
  bucket_heap,      \* the GUI_wt_bucket nodes allocated for the table
  gpc,              \* "idle", or "free": inside gui_free_widgets
  gi,               \* the loop index of gui_free_widgets
  gcall, gret,      \* the last call into the widget table and its result
  added             \* names gui_widget_add hooked up since the table's init

gui == <<GUI_wt, widget_heap, bucket_heap, gpc, gi, gcall, gret, added>>

star == <<Omega0, omega, av, res, points, fn, choice, trimming, pc, outcome,
          wrote, cerr, ret, i, v, s, A, V, Vol, dVoldOmega>>

vars == <<star, gui>>

loop == <<i, v, s, A, V, Vol, dVoldOmega>>

\* T t = omega*omega/Omega3
t_of(Om, om) == Div(Mul(om, om), Mul(Om, Mul(Om, Om)))

\* dv with half the step, 1./(2*m)
dv_half == Scale \div (2 * m)

\* T dv = 1./m
dv == Scale \div m

\* Store with the mask ignored: both slots are stored to
Store_unmasked(arr, b0, b1, x) == [j \in 0..1 |-> x[j + 1]]

\* stores into a two-slot output array: slot 0 if b0, slot 1 if b1
Store(arr, b0, b1, x) ==
  [j \in 0..1 |-> IF (j = 0 /\ b0) \/ (j = 1 /\ b1) THEN x[j + 1] ELSE arr[j]]

Slots(b0, b1) == {j \in 0..1 : (j = 0 /\ b0) \/ (j = 1 /\ b1)}

\* (k0 + 2*(k1 + k2) + k3)/6
Weighted(k0, k1, k2, k3) == RDiv(k0 + 2 * (k1 + k2) + k3, 6)

\* ------------------------------------------------------------ area_volume
\* area_volume_regime with t <= 0.1 taken for the series
area_volume_regime_le(c, Om, om) ==
  IF ~Bit1(c) /\ ~Bit2(c) THEN "empty_mask"
  ELSE IF om = Whole(0) THEN "closed_form"
  ELSE IF Less(t_crit, t_of(Om, om)) THEN "no_solution"
  ELSE IF ~Less(t_series, t_of(Om, om)) THEN "series"
  ELSE "integrate"

\* the return statement area_volume(av, choice, Omega0, omega) leaves by
area_volume_regime(c, Om, om) ==
  IF ~Bit1(c) /\ ~Bit2(c) THEN "empty_mask"
  ELSE IF om = Whole(0) THEN "closed_form"
  ELSE IF Less(t_crit, t_of(Om, om)) THEN "no_solution"
  ELSE IF Less(t_of(Om, om), t_series) THEN "series"
  ELSE "integrate"

\* {area, volume} of the sphere, omega == 0
area_volume_sphere(Om) ==
  LET Omega2 == Mul(Om, Om)
      Omega3 == Mul(Om, Omega2)
  IN  << Div(M_4PI, Omega2), Div(M_4PI, Mul(Whole(3), Omega3)) >>

\* area_volume_series with the volume under the prefactor of the area
area_volume_series_area_prefactor(Om, om) ==
  LET Omega2 == Mul(Om, Om)
      tf == ToFix(t_of(Om, om))
      f == Div(M_4PI, Omega2)
  IN  << Mul(f, FromFix(Series(area_a, tf))),
         Mul(f, FromFix(Series(area_volume_a, tf))) >>

\* {area, volume} by the analytic approximation, t < 0.1
area_volume_series(Om, om) ==
  LET Omega2 == Mul(Om, Om)
      tf == ToFix(t_of(Om, om))
      f == Div(M_4PI, Omega2)
  IN  << Mul(f, FromFix(Series(area_a, tf))),
         Div(Mul(f, FromFix(Series(area_volume_a, tf))), Mul(Whole(3), Om)) >>

\* {area, volume} from the accumulators the RK4 loop leaves
area_volume_scaled(Om, Aa, Va) ==
  LET Omega2 == Mul(Om, Om)
      Omega3 == Mul(Om, Omega2)
  IN  << Div(Mul(M_4PI, FromFix(Aa)), Omega2),
         Div(Mul(M_2PI, FromFix(Va)), Omega3) >>

\* q*std::sqrt(q)
Pow32(q) == FMul(q, FSqrt(q))

\* k[.][0], k[.][1], k[.][2] of one RK4 stage of area_volume from its F
area_volume_k(b_area, b_volume, s1, F) ==
  << FMul(dv, F),
     IF b_area THEN FMul(dv, FSqrt(s1 + RDiv(FMul(F, F), 4))) ELSE 0,
     IF b_volume THEN FMul(dv, s1) ELSE 0 >>

\* area_volume_stage with the denominator of F left out when the area is
\* not requested
area_volume_stage_masked(tf, b_area, b_volume, v1, s1) ==
  area_volume_k(b_area, b_volume, s1,
                IF b_area
                THEN FDiv(2 * v1, One - FMul(tf, Pow32(FMul(v1, v1) + s1)))
                ELSE 2 * v1)

\* one RK4 stage of area_volume at (v1, s1): k[.][0], k[.][1], k[.][2]
area_volume_stage(tf, b_area, b_volume, v1, s1) ==
  area_volume_k(b_area, b_volume, s1,
                FDiv(2 * v1, One - FMul(tf, Pow32(FMul(v1, v1) + s1))))

\* area_volume_rk4 with the third stage taken from the first, not the second
area_volume_rk4_stale(tf, b_area, b_volume, v0, s0, A0, V0) ==
  LET k0 == area_volume_stage(tf, b_area, b_volume, v0, s0)
      k1 == area_volume_stage(tf, b_area, b_volume,
                              v0 - dv \div 2, s0 + RDiv(k0[1], 2))
      k2 == area_volume_stage(tf, b_area, b_volume,
                              v0 - dv \div 2, s0 + RDiv(k0[1], 2))
      k3 == area_volume_stage(tf, b_area, b_volume, v0 - dv, s0 + k2[1])
  IN  << s0 + Weighted(k0[1], k1[1], k2[1], k3[1]),
         IF b_area THEN A0 + Weighted(k0[2], k1[2], k2[2], k3[2]) ELSE A0,
         IF b_volume THEN V0 + Weighted(k0[3], k1[3], k2[3], k3[3]) ELSE V0 >>

\* one iteration of the loop: the new <<s, A, V>>
area_volume_rk4(tf, b_area, b_volume, v0, s0, A0, V0) ==
  LET k0 == area_volume_stage(tf, b_area, b_volume, v0, s0)
      k1 == area_volume_stage(tf, b_area, b_volume,
                              v0 - dv \div 2, s0 + RDiv(k0[1], 2))
      k2 == area_volume_stage(tf, b_area, b_volume,
                              v0 - dv \div 2, s0 + RDiv(k1[1], 2))
      k3 == area_volume_stage(tf, b_area, b_volume, v0 - dv, s0 + k2[1])
  IN  << s0 + Weighted(k0[1], k1[1], k2[1], k3[1]),
         IF b_area THEN A0 + Weighted(k0[2], k1[2], k2[2], k3[2]) ELSE A0,
         IF b_volume THEN V0 + Weighted(k0[3], k1[3], k2[3], k3[3]) ELSE V0 >>

\* area_volume_out with the return after the diagnostic missing
area_volume_out_fallthrough(r, c, arr, Om, om) ==
  IF r = "closed_form"
  THEN Store(arr, Bit1(c), Bit2(c), area_volume_sphere(Om))
  ELSE IF r \in {"series", "no_solution"}
  THEN Store(arr, Bit1(c), Bit2(c), area_volume_series(Om, om))
  ELSE arr

\* the array a call leaving by return statement r before the loop leaves
area_volume_out(r, c, arr, Om, om) ==
  IF r = "closed_form"
  THEN Store(arr, Bit1(c), Bit2(c), area_volume_sphere(Om))
  ELSE IF r = "series"
  THEN Store(arr, Bit1(c), Bit2(c), area_volume_series(Om, om))
  ELSE arr

\* entry of area_volume up to its first return or to the head of the loop
area_volume(c) ==
  /\ pc = "idle"
  /\ fn' = "area_volume"
  /\ choice' = c
  /\ LET r == area_volume_regime(c, Omega0, omega)
         b_area == Bit1(c)
         b_volume == Bit2(c)
     IN  /\ cerr' = IF r = "no_solution" THEN NoSolution ELSE ""
         /\ IF r = "integrate"
            THEN /\ pc' = "rk4"
                 /\ outcome' = "running"
                 /\ ret' = "none"
                 /\ wrote' = {}
                 /\ av' = av
                 /\ i' = 0 /\ v' = One /\ s' = 0 /\ A' = 0 /\ V' = 0
                 /\ UNCHANGED <<Vol, dVoldOmega>>
            ELSE /\ pc' = "idle"
                 /\ outcome' = r
                 /\ ret' = Returns(r)
                 /\ wrote' = IF r \in {"closed_form", "series"}
                             THEN Slots(b_area, b_volume) ELSE {}
                 /\ av' = area_volume_out(r, c, av, Omega0, omega)
                 /\ UNCHANGED loop
  /\ UNCHANGED <<Omega0, omega, res, points, trimming>>
  /\ UNCHANGED gui

\* for (int i = 0; i < m; ++i) { ... }
area_volume_step ==
  /\ pc = "rk4" /\ fn = "area_volume" /\ i < m
  /\ \E n \in {area_volume_rk4(ToFix(t_of(Omega0, omega)),
                                   Bit1(choice), Bit2(choice), v, s, A, V)} :
       /\ s' = n[1] /\ A' = n[2] /\ V' = n[3]
  /\ v' = v - dv
  /\ i' = i + 1
  /\ UNCHANGED <<Omega0, omega, av, res, points, fn, choice, trimming, pc,
                 outcome, wrote, cerr, ret, Vol, dVoldOmega>>
  /\ UNCHANGED gui

\* the stores after the loop and the end of the function
area_volume_done ==
  /\ pc = "rk4" /\ fn = "area_volume" /\ i = m
  /\ av' = Store(av, Bit1(choice), Bit2(choice),
                 area_volume_scaled(Omega0, A, V))
  /\ wrote' = Slots(Bit1(choice), Bit2(choice))
  /\ pc' = "idle"
  /\ outcome' = "integrated"
  /\ ret' = Returns("integrated")
  /\ i' = 0 /\ v' = 0 /\ s' = 0 /\ A' = 0 /\ V' = 0
  /\ UNCHANGED <<Omega0, omega, res, points, fn, choice, trimming, cerr,
                 Vol, dVoldOmega>>
  /\ UNCHANGED gui

\* ------------------------------------------------------------------ volume
\* volume_regime with t >= 8/27 taken for the domain failure
volume_regime_ge(c, Om, om) ==
  IF ~Bit1(c) /\ ~Bit2(c) THEN "empty_mask"
  ELSE IF om = Whole(0) THEN "closed_form"
  ELSE IF ~Less(t_of(Om, om), t_crit) THEN "no_solution"
  ELSE IF Less(t_of(Om, om), t_series) THEN "series"
  ELSE "integrate"

\* the return statement volume(res, choice, Omega0, omega) leaves by
volume_regime(c, Om, om) ==
  IF ~Bit1(c) /\ ~Bit2(c) THEN "empty_mask"
  ELSE IF om = Whole(0) THEN "closed_form"
  ELSE IF Less(t_crit, t_of(Om, om)) THEN "no_solution"
  ELSE IF Less(t_of(Om, om), t_series) THEN "series"
  ELSE "integrate"

\* volume_sphere with the division by Omega0 missing
volume_sphere_undivided(Om) ==
  LET Omega3 == Mul(Om, Mul(Om, Om))
      Vol_ == Div(M_4PI, Mul(Whole(3), Omega3))
  IN  << Vol_, Mul(Whole(-3), Vol_) >>

\* {Volume, dVolume/dOmega} of the sphere, omega == 0
volume_sphere(Om) ==
  LET Omega3 == Mul(Om, Mul(Om, Om))
      Vol_ == Div(M_4PI, Mul(Whole(3), Omega3))
  IN  << Vol_, Div(Mul(Whole(-3), Vol_), Om) >>

\* volume_series with the sign of the derivative lost
volume_series_unsigned(Om, om) ==
  LET Omega3 == Mul(Om, Mul(Om, Om))
      tf == ToFix(t_of(Om, om))
      Vol_ == Series(volume_a, tf)
      dVoldt == dSeries(volume_a, tf)
      f == Div(M_4PI, Mul(Whole(3), Omega3))
  IN  << Mul(f, FromFix(Vol_)),
         Div(Mul(Mul(Whole(3), f), FromFix(Vol_ + FMul(tf, dVoldt))), Om) >>

\* {Volume, dVolume/dOmega} by the analytic approximation, t < 0.1
volume_series(Om, om) ==
  LET Omega3 == Mul(Om, Mul(Om, Om))
      tf == ToFix(t_of(Om, om))
      Vol_ == Series(volume_a, tf)
      dVoldt == dSeries(volume_a, tf)
      f == Div(M_4PI, Mul(Whole(3), Omega3))
  IN  << Mul(f, FromFix(Vol_)),
         Div(Mul(Mul(Whole(-3), f), FromFix(Vol_ + FMul(tf, dVoldt))), Om) >>

\* volume_scaled with the prefactor of the sphere, 4 pi/(3 Omega0^3)
volume_scaled_sphere(Om, Va, Da) ==
  LET Omega3 == Mul(Om, Mul(Om, Om))
      f == Div(M_4PI, Mul(Whole(3), Omega3))
  IN  << Mul(f, FromFix(Va)),
         Div(Mul(Mul(Whole(-3), f), FromFix(Da)), Om) >>

\* {Volume, dVolume/dOmega} from the accumulators the RK4 loop leaves
volume_scaled(Om, Va, Da) ==
  LET Omega3 == Mul(Om, Mul(Om, Om))
      f == Div(M_2PI, Omega3)
  IN  << Mul(f, FromFix(Va)),
         Div(Mul(Mul(Whole(-3), f), FromFix(Da)), Om) >>

\* k[.][0], k[.][1], k[.][2] of one RK4 stage of volume from f == q*sqrt(q)
volume_k(tf, b_Vol, b_dVoldOmega, v1, s1, f) ==
  << FMul(dv, FDiv(2 * v1, One - FMul(tf, f))),
     IF b_Vol THEN FMul(dv, s1) ELSE 0,
     IF b_dVoldOmega
     THEN FMul(dv, s1 + FDiv(FMul(FMul(tf, s1), f), One - FMul(tf, f)))
     ELSE 0 >>

\* one RK4 stage of volume at (v1, s1): k[.][0], k[.][1], k[.][2]
volume_stage(tf, b_Vol, b_dVoldOmega, v1, s1) ==
  volume_k(tf, b_Vol, b_dVoldOmega, v1, s1, Pow32(FMul(v1, v1) + s1))

\* one iteration of the loop: the new <<s, Vol, dVoldOmega>>
volume_rk4(tf, b_Vol, b_dVoldOmega, v0, s0, V0, D0) ==
  LET k0 == volume_stage(tf, b_Vol, b_dVoldOmega, v0, s0)
      k1 == volume_stage(tf, b_Vol, b_dVoldOmega,
                         v0 - dv \div 2, s0 + RDiv(k0[1], 2))
      k2 == volume_stage(tf, b_Vol, b_dVoldOmega,
                         v0 - dv \div 2, s0 + RDiv(k1[1], 2))
      k3 == volume_stage(tf, b_Vol, b_dVoldOmega, v0 - dv, s0 + k2[1])
  IN  << s0 + Weighted(k0[1], k1[1], k2[1], k3[1]),
         IF b_Vol THEN V0 + Weighted(k0[2], k1[2], k2[2], k3[2]) ELSE V0,
         IF b_dVoldOmega
         THEN D0 + Weighted(k0[3], k1[3], k2[3], k3[3]) ELSE D0 >>

\* the array a call leaving by return statement r before the loop leaves
volume_out(r, c, arr, Om, om) ==
  IF r = "closed_form"
  THEN Store(arr, Bit1(c), Bit2(c), volume_sphere(Om))
  ELSE IF r = "series"
  THEN Store(arr, Bit1(c), Bit2(c), volume_series(Om, om))
  ELSE arr

\* entry of volume up to its first return or to the head of the loop
volume(c) ==
  /\ pc = "idle"
  /\ fn' = "volume"
  /\ choice' = c
  /\ LET r == volume_regime(c, Omega0, omega)
         b_Vol == Bit1(c)
         b_dVoldOmega == Bit2(c)
     IN  /\ cerr' = IF r = "no_solution" THEN NoSolution ELSE ""
         /\ IF r = "integrate"
            THEN /\ pc' = "rk4"
                 /\ outcome' = "running"
                 /\ ret' = "none"
                 /\ wrote' = {}
                 /\ res' = res
                 /\ i' = 0 /\ v' = One /\ s' = 0
                 /\ Vol' = 0 /\ dVoldOmega' = 0
                 /\ UNCHANGED <<A, V>>
            ELSE /\ pc' = "idle"
                 /\ outcome' = r
                 /\ ret' = Returns(r)
                 /\ wrote' = IF r \in {"closed_form", "series"}
                             THEN Slots(b_Vol, b_dVoldOmega) ELSE {}
                 /\ res' = volume_out(r, c, res, Omega0, omega)
                 /\ UNCHANGED loop
  /\ UNCHANGED <<Omega0, omega, av, points, trimming>>
  /\ UNCHANGED gui

\* for (int i = 0; i < m; ++i) { ... }
volume_step ==
  /\ pc = "rk4" /\ fn = "volume" /\ i < m
  /\ \E n \in {volume_rk4(ToFix(t_of(Omega0, omega)),
                         Bit1(choice), Bit2(choice), v, s, Vol, dVoldOmega)} :
       /\ s' = n[1] /\ Vol' = n[2] /\ dVoldOmega' = n[3]
  /\ v' = v - dv
  /\ i' = i + 1
  /\ UNCHANGED <<Omega0, omega, av, res, points, fn, choice, trimming, pc,
                 outcome, wrote, cerr, ret, A, V>>
  /\ UNCHANGED gui

\* the stores after the loop and the end of the function
volume_done ==
  /\ pc = "rk4" /\ fn = "volume" /\ i = m
  /\ res' = Store(res, Bit1(choice), Bit2(choice),
                  volume_scaled(Omega0, Vol, dVoldOmega))
  /\ wrote' = Slots(Bit1(choice), Bit2(choice))
  /\ pc' = "idle"
  /\ outcome' = "integrated"
  /\ ret' = Returns("integrated")
  /\ i' = 0 /\ v' = 0 /\ s' = 0 /\ Vol' = 0 /\ dVoldOmega' = 0
  /\ UNCHANGED <<Omega0, omega, av, points, fn, choice, trimming, cerr, A, V>>
  /\ UNCHANGED gui

\* ----------------------------------------------------- potential_on_x_axis
\* 1/std::abs(x) + omega*omega*x*x/2, x != 0
potential_on_x_axis(x, om) ==
  Add(Inv(<<Abs(x[1]), x[2]>>), Div(Mul(Mul(om, om), Mul(x, x)), Whole(2)))

\* --------------------------------------- lagrange_point, pole, critical_potential
\* std::nan(""): no number
NaN == <<0, 0>>

\* the natural number whose cube is n
ICbrt(n) == CHOOSE k \in 0..n : k * k * k = n

\* std::cbrt, on a rational whose numerator and denominator are cubes
Cbrt(x) ==
  LET c == ICbrt(Abs(x[1]))
  IN  <<IF x[1] < 0 THEN -c ELSE c, ICbrt(x[2])>>

\* y + y^3/3 + y^5/5 + ..., from the term pw/k on, until the terms vanish
RECURSIVE Atanh(_, _, _)
Atanh(y2, pw, k) ==
  IF pw = 0 THEN 0 ELSE RDiv(pw, k) + Atanh(y2, FMul(pw, y2), k + 2)

\* the natural logarithm of the positive rational c, in fixed point:
\* log c = 2 atanh((c - 1)/(c + 1))
Ln(c) ==
  LET y == ToFix(Rat(c[1] - c[2], c[1] + c[2]))
  IN  2 * Atanh(FMul(y, y), y, 1)

\* the literal 2./3 is the nearest number of the floating-point format
\* below 2/3: three times what it lacks, in units of 1/Scale
Short23 == 2 * Scale - 3 * ((2 * Scale) \div 3)

\* std::pow(x, 2./3): the exponent is no integer, so a negative base gives
\* no number; for x = c^3 the value is c^(2 - Short23/Scale), which is
\* c^2 (1 - Short23 log(c)/Scale) to the precision of the format, rounded
Pow23(x) ==
  IF x[1] < 0 THEN NaN
  ELSE LET c == Cbrt(x)
           c2 == ToFix(Mul(c, c))
       IN  FromFix(c2 - RDiv(Short23 * FMul(c2, Ln(c)), Scale))

\* if (omega == 0) return std::nan(""); return std::cbrt(omega*omega);
lagrange_point(om) ==
  IF om = Whole(0) THEN NaN ELSE Cbrt(Mul(om, om))

\* return 1/Omega0;
pole(Om, om) == Div(Whole(1), Om)

\* if (omega == 0) return std::nan(""); return 3*std::pow(omega, 2./3)/2;
critical_potential(om) ==
  IF om = Whole(0) THEN NaN
  ELSE LET p == Pow23(om)
       IN  IF p = NaN THEN NaN ELSE Div(Mul(Whole(3), p), Whole(2))

\* the values of omega and Omega0 the auxiliary functions are called with
AuxOmegas ==
  {Whole(0)} \cup
  UNION {{Rat(p * p * p, q * q * q), Rat(-(p * p * p), q * q * q)} :
           p \in 1..MaxRoot, q \in 1..MaxRoot}

AuxOmega0s ==
  {Whole(-2), <<-1, 2>>, Whole(1), <<3, 2>>, Whole(6), Whole(10)}

AuxPairs == AuxOmega0s \X AuxOmegas

\* a call of each of the three functions on the caller's pair
call_lagrange_point ==
  /\ pc = "idle"
  /\ fn' = "lagrange_point"
  /\ ret' = lagrange_point(omega)
  /\ outcome' = "returned"
  /\ cerr' = ""
  /\ wrote' = {}
  /\ UNCHANGED <<Omega0, omega, av, res, points, choice, trimming, pc, loop>>
  /\ UNCHANGED gui

call_pole ==
  /\ pc = "idle"
  /\ fn' = "pole"
  /\ ret' = pole(Omega0, omega)
  /\ outcome' = "returned"
  /\ cerr' = ""
  /\ wrote' = {}
  /\ UNCHANGED <<Omega0, omega, av, res, points, choice, trimming, pc, loop>>
  /\ UNCHANGED gui

call_critical_potential ==
  /\ pc = "idle"
  /\ fn' = "critical_potential"
  /\ ret' = critical_potential(omega)
  /\ outcome' = "returned"
  /\ cerr' = ""
  /\ wrote' = {}
  /\ UNCHANGED <<Omega0, omega, av, res, points, choice, trimming, pc, loop>>
  /\ UNCHANGED gui

\* -------------------------------------------------------- points_on_x_axis
\* candidates for the real roots of the cubic
RootGrid == {Rat(n, d) : n \in -2..2, d \in 1..10}

\* a[0] + a[1] x + a[2] x^2 + a[3] x^3
Poly(a, x) ==
  Add(a[1], Mul(x, Add(a[2], Mul(x, Add(a[3], Mul(x, a[4]))))))

RealRoots(a) == {x \in RootGrid : Poly(a, x) = Whole(0)}

\* sign of the discriminant of a[0] + a[1] x + a[3] x^3 (a[2] = 0):
\* -4 a[3] a[1]^3 - 27 a[3]^2 a[0]^2, divided by a[3] > 0
Discriminant(a) ==
  Add(Mul(Whole(-4), Mul(a[2], Mul(a[2], a[2]))),
      Mul(Whole(-27), Mul(a[4], Mul(a[1], a[1]))))

\* the grid holds every real root of the cubic
InGrid(a) ==
  Cardinality(RealRoots(a)) =
    IF Less(Whole(0), Discriminant(a)) THEN 3
    ELSE IF Discriminant(a) = Whole(0) THEN 2 ELSE 1

\* utils::solve_cubic(a, roots): the sequences it may leave in roots, the
\* real roots of the cubic, each listed once, in some order
solve_cubic(a) ==
  LET R == RealRoots(a)
      n == Cardinality(R)
  IN  {q \in [1..n -> R] : \A x \in R : \E j \in 1..n : q[j] = x}

\* Cubic with the division of omega*omega by 2 left out
Cubic_unhalved(Om, om) == << Whole(1), Neg(Om), Whole(0), Mul(om, om) >>

\* T a[4] = {1, -Omega0, 0, omega*omega/2}
Cubic(Om, om) == << Whole(1), Neg(Om), Whole(0), Div(Mul(om, om), Whole(2)) >>

\* Positive with the test left out
Positive_any(x) == TRUE

\* if (x > 0)
Positive(x) == Less(Whole(0), x)

\* for (auto && x: roots) if (x > 0) { push_back(x); push_back(-x); }
RECURSIVE PushRoots(_, _, _)
PushRoots(p, roots, k) ==
  IF k > Len(roots) THEN p
  ELSE PushRoots(IF Positive(roots[k])
                 THEN Append(Append(p, roots[k]), Neg(roots[k])) ELSE p,
                 roots, k + 1)

\* Sort left out
Sort_none(p) == p

\* std::sort(points.begin(), points.end())
Sort(p) == SortSeq(p, LAMBDA x, y : Less(x, y))

\* Trim with the erase of the first element left out
Trim_back_only(p, trim) ==
  IF Len(p) >= 2 /\ trim THEN SubSeq(p, 1, Len(p) - 1) ELSE p

\* if (points.size() >= 2 && trimming) { pop_back(); erase(begin()); }
Trim(p, trim) ==
  IF Len(p) >= 2 /\ trim THEN SubSeq(p, 2, Len(p) - 1) ELSE p

\* the vector points_on_x_axis(points, Omega0, omega, trimming) leaves,
\* roots being what solve_cubic returned
points_result(p, Om, om, trim, roots) ==
  IF om = Whole(0) THEN p
  ELSE Trim(Sort(PushRoots(p, roots, 1)), trim)

points_on_x_axis(trim) ==
  /\ pc = "idle"
  /\ Len(points) <= MaxPoints
  /\ omega = Whole(0) \/ InGrid(Cubic(Omega0, omega))
  /\ fn' = "points_on_x_axis"
  /\ trimming' = trim
  /\ \E roots \in IF omega = Whole(0) THEN {<< >>}
                   ELSE solve_cubic(Cubic(Omega0, omega)) :
       points' = points_result(points, Omega0, omega, trim, roots)
  /\ outcome' = IF omega = Whole(0) THEN "omega_zero" ELSE "solved"
  /\ ret' = Returns(outcome')
  /\ cerr' = ""
  /\ wrote' = {}
  /\ UNCHANGED <<Omega0, omega, av, res, choice, pc, loop>>
  /\ UNCHANGED gui

\* ------------------------------------------------------------ widget table
\* the header that sets the multiplier and the number of buckets is not
\* among the sources at hand; the table is modelled with these
GUI_WT_HASH_MULTIPLIER == 5

GUI_WT_HASH_BUCKETS == 3

SUCCESS == 0

NULL == 0

\* the characters of widget names: 'a' (names differ by their length;
\* "a" and "aaa" share a bucket, as do "" and "aa")
Chars == {97}

\* the strings of at most n characters
RECURSIVE Strings(_)
Strings(n) ==
  IF n = 0 THEN {<< >>}
  ELSE LET S == Strings(n - 1)
       IN  S \cup {Append(x, c) : x \in S, c \in Chars}

\* the names the GUI gives its widgets
Names == Strings(MaxName)

\* GtkWidget pointers: NULL and a widget
Gtks == {NULL, 1}

\* widget->name = NULL
NoName == <<0>>

\* GUI_wt->bucket[i] = NULL for every i
NoBuckets == [b \in 0..(GUI_WT_HASH_BUCKETS - 1) |-> NULL]

\* for (w = name; *w != '\0'; w++) h = GUI_WT_HASH_MULTIPLIER * h + *w;
RECURSIVE HashFrom(_, _, _)
HashFrom(name, k, h) ==
  IF k > Len(name) THEN h
  ELSE HashFrom(name, k + 1, GUI_WT_HASH_MULTIPLIER * h + name[k])

\* return h % GUI_WT_HASH_BUCKETS; (names are short: h stays far below 2^32)
gui_widget_hash(name) == HashFrom(name, 1, 0) % GUI_WT_HASH_BUCKETS

\* while (bucket) { if (strcmp (bucket->widget->name, name) == 0) break;
\*                  bucket = bucket->next; }
RECURSIVE Find(_, _, _, _)
Find(bh, wh, bucket, name) ==
  IF bucket = NULL THEN NULL
  ELSE IF wh[bh[bucket].widget].name = name THEN bucket
  ELSE Find(bh, wh, bh[bucket].next, name)

\* GUI_widget *widget = phoebe_malloc (sizeof (*widget)); fields cleared
gui_widget_new(wh) == Append(wh, [name |-> NoName, gtk |-> NULL, freed |-> 0])

\* widget->name = strdup (name); widget->gtk = gtk; ...
gui_widget_hookup(wh, widget, gtk, name) ==
  [wh EXCEPT ![widget].name = name, ![widget].gtk = gtk]

\* gui_widget_free that leaves the widget allocated
gui_widget_free_not(wh, widget) == wh

\* if (!widget) return SUCCESS; free (widget->name); free (widget);
gui_widget_free(wh, widget) ==
  IF widget = NULL THEN wh ELSE [wh EXCEPT ![widget].freed = @ + 1]

\* gui_widget_lookup that hands back the head of the bucket
gui_widget_lookup_head(wt, bh, wh, name) ==
  LET bucket == wt.bucket[gui_widget_hash(name)]
  IN  IF bucket = NULL THEN NULL ELSE bh[bucket].widget

\* the widget of the bucket node holding name, NULL when there is none
gui_widget_lookup(wt, bh, wh, name) ==
  LET bucket == Find(bh, wh, wt.bucket[gui_widget_hash(name)], name)
  IN  IF bucket = NULL THEN NULL ELSE bh[bucket].widget

\* gui_widget_commit without the search for the name
gui_widget_commit_unchecked(wt, bh, wh, widget) ==
  LET hash == gui_widget_hash(wh[widget].name)
  IN  [wt |-> [wt EXCEPT !.bucket[hash] = Len(bh) + 1],
       bh |-> Append(bh, [widget |-> widget, next |-> wt.bucket[hash],
                          freed |-> 0]),
       status |-> SUCCESS]

\* the table and the bucket heap after the commit of widget, and the status
gui_widget_commit(wt, bh, wh, widget) ==
  LET hash == gui_widget_hash(wh[widget].name)
      bucket == Find(bh, wh, wt.bucket[hash], wh[widget].name)
  IN  IF bucket # NULL THEN [wt |-> wt, bh |-> bh, status |-> SUCCESS]
      ELSE [wt |-> [wt EXCEPT !.bucket[hash] = Len(bh) + 1],
            bh |-> Append(bh, [widget |-> widget, next |-> wt.bucket[hash],
                               freed |-> 0]),
            status |-> SUCCESS]

\* GUI_wt = phoebe_malloc (...); every bucket NULL. What an earlier table
\* held is out of reach and leaves the model.
gui_init_widgets ==
  /\ gpc = "idle" /\ GUI_wt.live # "live"
  /\ GUI_wt' = [live |-> "live", bucket |-> NoBuckets]
  /\ widget_heap' = << >>
  /\ bucket_heap' = << >>
  /\ added' = {}
  /\ gcall' = [fn |-> "gui_init_widgets", name |-> << >>, gtk |-> NULL]
  /\ gret' = SUCCESS
  /\ UNCHANGED <<gpc, gi, star>>

gui_widget_add(name, gtk) ==
  /\ gpc = "idle" /\ GUI_wt.live = "live"
  /\ gtk # NULL => Len(widget_heap) < MaxWidgets
  /\ gcall' = [fn |-> "gui_widget_add", name |-> name, gtk |-> gtk]
  /\ IF gtk = NULL
     THEN /\ gret' = -1
          /\ UNCHANGED <<GUI_wt, widget_heap, bucket_heap, added>>
     ELSE LET widget == Len(widget_heap) + 1
              wh == gui_widget_hookup(gui_widget_new(widget_heap), widget,
                                      gtk, name)
              c == gui_widget_commit(GUI_wt, bucket_heap, wh, widget)
          IN  /\ widget_heap' = wh
              /\ GUI_wt' = c.wt
              /\ bucket_heap' = c.bh
              /\ added' = added \cup {name}
              /\ gret' = SUCCESS
  /\ UNCHANGED <<gpc, gi, star>>

call_gui_widget_lookup(name) ==
  /\ gpc = "idle" /\ GUI_wt.live = "live"
  /\ gcall' = [fn |-> "gui_widget_lookup", name |-> name, gtk |-> NULL]
  /\ gret' = gui_widget_lookup(GUI_wt, bucket_heap, widget_heap, name)
  /\ UNCHANGED <<GUI_wt, widget_heap, bucket_heap, added, gpc, gi, star>>

\* the call of gui_free_widgets: i = 0
gui_free_widgets ==
  /\ gpc = "idle" /\ GUI_wt.live = "live"
  /\ gpc' = "free"
  /\ gi' = 0
  /\ gcall' = [fn |-> "gui_free_widgets", name |-> << >>, gtk |-> NULL]
  /\ UNCHANGED <<GUI_wt, widget_heap, bucket_heap, added, gret, star>>

\* one iteration of while (GUI_wt->bucket[i])
gui_free_widgets_pop ==
  /\ gpc = "free" /\ gi < GUI_WT_HASH_BUCKETS
  /\ GUI_wt.bucket[gi] # NULL
  /\ LET bucket == GUI_wt.bucket[gi]
     IN  /\ GUI_wt' = [GUI_wt EXCEPT !.bucket[gi] = bucket_heap[bucket].next]
         /\ widget_heap' =
              gui_widget_free(widget_heap, bucket_heap[bucket].widget)
         /\ bucket_heap' = [bucket_heap EXCEPT ![bucket].freed = @ + 1]
  /\ UNCHANGED <<gpc, gi, gcall, gret, added, star>>

\* the bucket is empty: i++
gui_free_widgets_next ==
  /\ gpc = "free" /\ gi < GUI_WT_HASH_BUCKETS
  /\ GUI_wt.bucket[gi] = NULL
  /\ gi' = gi + 1
  /\ UNCHANGED <<GUI_wt, widget_heap, bucket_heap, gpc, gcall, gret, added,
                 star>>

\* free (GUI_wt); return SUCCESS;
gui_free_widgets_done ==
  /\ gpc = "free" /\ gi = GUI_WT_HASH_BUCKETS
  /\ GUI_wt' = [GUI_wt EXCEPT !.live = "freed"]
  /\ gpc' = "idle"
  /\ gret' = SUCCESS
  /\ UNCHANGED <<widget_heap, bucket_heap, gi, gcall, added, star>>

\* ------------------------------------------------------------------ caller
\* the caller takes a parameter pair, an empty vector and two output arrays
\* holding whatever they held
Caller(pair, a0) ==
  /\ pc = "idle"
  /\ Omega0' = pair[1]
  /\ omega' = pair[2]
  /\ points' = << >>
  /\ av' = a0
  /\ res' = a0
  /\ fn' = "main"
  /\ outcome' = "none"
  /\ ret' = "none"
  /\ cerr' = ""
  /\ wrote' = {}
  /\ choice' = 0
  /\ trimming' = TRUE
  /\ UNCHANGED <<pc, loop>>
  /\ UNCHANGED gui

\* the two slots of a fresh array hold different stale values
Arrays == {a \in [0..1 -> Stale] : a[0] # a[1]}

\* the state the caller starts from, its pair drawn from P
InitWith(P) ==
  /\ \E pair \in P : Omega0 = pair[1] /\ omega = pair[2]
  /\ points = << >>
  /\ av \in Arrays
  /\ res = av
  /\ fn = "main"
  /\ choice = 0
  /\ trimming = TRUE
  /\ pc = "idle"
  /\ outcome = "none"
  /\ wrote = {}
  /\ cerr = ""
  /\ ret = "none"
  /\ i = 0 /\ v = 0 /\ s = 0 /\ A = 0 /\ V = 0 /\ Vol = 0 /\ dVoldOmega = 0
  /\ GUI_wt = [live |-> "none", bucket |-> NoBuckets]
  /\ widget_heap = << >>
  /\ bucket_heap = << >>
  /\ gpc = "idle"
  /\ gi = 0
  /\ gcall = [fn |-> "main", name |-> << >>, gtk |-> NULL]
  /\ gret = SUCCESS
  /\ added = {}

Init == InitWith(Pairs)

Next ==
  \/ \E pair \in Pairs, a0 \in Arrays : Caller(pair, a0)
  \/ \E c \in Choices : area_volume(c)
  \/ area_volume_step
  \/ area_volume_done
  \/ \E c \in Choices : volume(c)
  \/ volume_step
  \/ volume_done

\* the caller and the geometry integrators
Spec == Init /\ [][Next]_vars

PointsNext ==
  \/ \E pair \in PointPairs, a0 \in Arrays : Caller(pair, a0)
  \/ \E trim \in BOOLEAN : points_on_x_axis(trim)

\* the caller and the axis-intercept solver
PointsSpec == Init /\ [][PointsNext]_vars

AuxInit == InitWith(AuxPairs)

AuxNext ==
  \/ \E pair \in AuxPairs, a0 \in Arrays : Caller(pair, a0)
  \/ call_lagrange_point
  \/ call_pole
  \/ call_critical_potential

\* the caller and the auxiliary quantities
AuxSpec == AuxInit /\ [][AuxNext]_vars

GuiInit == InitWith({<<Whole(1), Whole(0)>>})

GuiNext ==
  \/ gui_init_widgets
  \/ \E name \in Names, gtk \in Gtks : gui_widget_add(name, gtk)
  \/ \E name \in Names : call_gui_widget_lookup(name)
  \/ gui_free_widgets
  \/ gui_free_widgets_pop
  \/ gui_free_widgets_next
  \/ gui_free_widgets_done

\* the GUI and its widget table
GuiSpec == GuiInit /\ [][GuiNext]_vars

TypeOK ==
  /\ pc \in {"idle", "rk4"}
  /\ wrote \subseteq 0..1
  /\ i \in 0..m

\* -------------------------------------------------------------- properties
Geometry == {"area_volume", "volume"}

\* a call of area_volume or volume has returned
Returned == pc = "idle" /\ fn \in Geometry

\* one of the two low bits of the mask is set
Requested == choice % 4 # 0

\* omega^2/Omega0^3 > p/q and omega^2/Omega0^3 < p/q, in integers
TGreater(p, q) ==
  q * omega[1] * omega[1] * Omega0[2] * Omega0[2] * Omega0[2] >
    p * Omega0[1] * Omega0[1] * Omega0[1] * omega[2] * omega[2]

TLess(p, q) ==
  q * omega[1] * omega[1] * Omega0[2] * Omega0[2] * Omega0[2] <
    p * Omega0[1] * Omega0[1] * Omega0[1] * omega[2] * omega[2]

\* the outcome the claim gives, the omega == 0 test first
Regime ==
  IF omega[1] = 0 THEN "closed_form"
  ELSE IF TGreater(8, 27) THEN "no_solution"
  ELSE IF TLess(1, 10) THEN "series"
  ELSE "integrated"

\* the same with the domain check first
RegimeDomainFirst ==
  IF TGreater(8, 27) THEN "no_solution"
  ELSE IF omega[1] = 0 THEN "closed_form"
  ELSE IF TLess(1, 10) THEN "series"
  ELSE "integrated"

\* C1: for a non-empty mask, area_volume and volume leave by the one outcome
\* that (Omega0, omega) fixes: omega == 0 gives the closed form, otherwise
\* t > 8/27 the domain failure, otherwise t < 0.1 the series, otherwise
\* (0.1 <= t <= 8/27) the integration; the loop is entered in that last case
\* only, and testing the domain before omega == 0 gives the same outcome.
C1_RegimeDispatch ==
  /\ (Returned /\ Requested) =>
       (outcome = Regime /\ outcome = RegimeDomainFirst)
  /\ pc = "rk4" =>
       (Requested /\ Regime = "integrated" /\ RegimeDomainFirst = "integrated")

\* area_volume has integrated at t == 0.1 exactly
C1_Witness ==
  /\ Returned /\ fn = "area_volume" /\ outcome = "integrated"
  /\ Omega0 = Whole(10) /\ omega = Whole(10) /\ choice = 3

\* a step that enters area_volume or volume
CallStep == pc = "idle" /\ fn' \in Geometry

\* omega != 0 and t > 8/27
DomainFailure == omega[1] # 0 /\ TGreater(8, 27)

\* C2 as stated: when omega != 0 and t > 8/27 a call changes no slot of
\* either output array, for every mask, returns normally, and has emitted
\* the diagnostic.
C2_Original ==
  [][(CallStep /\ DomainFailure) =>
       /\ av' = av /\ res' = res /\ wrote' = {}
       /\ pc' = "idle" /\ ret' = Void
       /\ cerr' = NoSolution]_vars

\* C2 (amended): when omega != 0 and t > 8/27 a call changes no slot of
\* either output array, for every mask, and returns normally; it has emitted
\* the diagnostic exactly when one of the two low mask bits is set.
C2_NoOutputOnFailure ==
  [][(CallStep /\ DomainFailure) =>
       /\ av' = av /\ res' = res /\ wrote' = {}
       /\ pc' = "idle" /\ ret' = Void
       /\ (cerr' = NoSolution <=> choice' % 4 # 0)]_vars

\* area_volume(av, 3, 1, 1) has returned after the diagnostic, av untouched
C2_Witness ==
  /\ Returned /\ fn = "area_volume" /\ outcome = "no_solution"
  /\ Omega0 = Whole(1) /\ omega = Whole(1) /\ choice = 3
  /\ cerr = NoSolution /\ av \in Arrays /\ wrote = {}

\* C3: what a call that met the domain failure hands back differs from what
\* a call leaving by any other return statement hands back.
C3_FailureSignalled ==
  (Returned /\ outcome = "no_solution") =>
    \A o \in {"empty_mask", "closed_form", "series", "integrated"} :
      ret # Returns(o)

\* C4: for omega == 0 the loop is never entered and a call with a non-empty
\* mask leaves by the closed form with area = 4 pi/Omega0^2,
\* volume = 4 pi/(3 Omega0^3) in both functions and
\* dVolume/dOmega0 = -3 volume/Omega0, each in its requested slot.
C4_ClosedForm ==
  /\ omega[1] = 0 => pc # "rk4"
  /\ (Returned /\ Requested /\ omega[1] = 0) =>
       LET n == Omega0[1]
           d == Omega0[2]
           area == Rat(4 * d * d, n * n)
           vol == Rat(4 * d * d * d, 3 * n * n * n)
           dvol == Rat(-3 * vol[1] * d, vol[2] * n)
       IN  /\ outcome = "closed_form"
           /\ fn = "area_volume" =>
                /\ Bit1(choice) => av[0] = area
                /\ Bit2(choice) => av[1] = vol
           /\ fn = "volume" =>
                /\ Bit1(choice) => res[0] = vol
                /\ Bit2(choice) => res[1] = dvol

\* volume(res, 3, 10, 0) has stored 4 pi/3000 and -4 pi/10000
C4_Witness ==
  /\ Returned /\ fn = "volume" /\ outcome = "closed_form"
  /\ Omega0 = Whole(10) /\ omega = Whole(0) /\ choice = 3
  /\ res[0] = <<1, 750>> /\ res[1] = <<-1, 2500>>

\* C5: no step of a call changes a slot of an output array other than a
\* slot of the called function's own array whose mask bit is set; a call
\* that returns from the closed form, the series or the integration has
\* stored a number to exactly the slots j with bit j of choice set, whatever
\* the higher bits, and a call with neither low bit set returns at once
\* having stored nothing.
C5_MaskFrame ==
  [][/\ fn' # "main" =>
          \A j \in 0..1 :
            /\ av'[j] # av[j] =>
                 (fn' = "area_volume" /\ (choice' \div (2^j)) % 2 = 1)
            /\ res'[j] # res[j] =>
                 (fn' = "volume" /\ (choice' \div (2^j)) % 2 = 1)
     /\ (pc' = "idle" /\ fn' \in Geometry) =>
          /\ wrote' =
               IF outcome' \in {"closed_form", "series", "integrated"}
               THEN {j \in 0..1 : (choice' \div (2^j)) % 2 = 1} ELSE {}
          /\ choice' % 4 = 0 => outcome' = "empty_mask"
          /\ \A j \in wrote' :
               IF fn' = "area_volume"
               THEN av'[j] \notin Stale ELSE res'[j] \notin Stale]_vars

\* area_volume(av, 5, 7/2, 3) has integrated and stored the area only
C5_Witness ==
  /\ Returned /\ fn = "area_volume" /\ outcome = "integrated"
  /\ Omega0 = <<7, 2>> /\ omega = Whole(3) /\ choice = 5
  /\ wrote = {0} /\ av[0] \notin Stale /\ av[1] \in Stale

\* C6: whenever area_volume has stored a volume in av[1] and volume has
\* stored one in res[0] for the caller's pair (Omega0, omega), the two are
\* equal, in the closed form, the series and the integration alike.
C6_SameVolume ==
  (av[1] \notin Stale /\ res[0] \notin Stale) => av[1] = res[0]

\* both functions have stored the series volume for (21/2, 10)
C6_Witness ==
  /\ pc = "idle" /\ Omega0 = <<21, 2>> /\ omega = Whole(10)
  /\ fn = "volume" /\ outcome = "series"
  /\ av[1] \notin Stale /\ res[0] \notin Stale

\* omega != 0 and t == 8/27
Critical == omega[1] # 0 /\ ~TGreater(8, 27) /\ ~TLess(8, 27)

\* C7: at t == 8/27 exactly a call with a non-empty mask, of area_volume or
\* of volume, is not rejected: it prints nothing, leaves by the integration
\* and has stored a number to every requested slot.
C7_CriticalBoundary ==
  (Returned /\ Requested /\ Critical) =>
    /\ outcome = "integrated"
    /\ cerr = ""
    /\ wrote = {j \in 0..1 : (choice \div (2^j)) % 2 = 1}
    /\ \A j \in wrote :
         IF fn = "area_volume" THEN av[j] \notin Stale ELSE res[j] \notin Stale

\* volume(res, 3, 3/2, 1) has integrated and stored both fields
C7_Witness ==
  /\ Returned /\ fn = "volume" /\ outcome = "integrated"
  /\ Omega0 = <<3, 2>> /\ omega = Whole(1) /\ choice = 3
  /\ res[0] \notin Stale /\ res[1] \notin Stale

\* C8: the vector points_on_x_axis fills holds -x with every x it holds,
\* and an even number of elements, trimmed or not.
C8_Symmetric ==
  /\ \A k \in 1..Len(points) :
       \E j \in 1..Len(points) : points[j] = <<-points[k][1], points[k][2]>>
  /\ Len(points) % 2 = 0

\* points_on_x_axis(points, 7/2, 3, false) has left the four intercepts
C8_Witness ==
  /\ pc = "idle" /\ fn = "points_on_x_axis" /\ ~trimming
  /\ Omega0 = <<7, 2>> /\ omega = Whole(3)
  /\ points = << <<-2, 3>>, <<-1, 3>>, <<1, 3>>, <<2, 3>> >>

\* C9: for omega == 0 points_on_x_axis leaves [-1/Omega0, +1/Omega0] in the
\* caller's empty vector.
C9_SphereIntercepts ==
  (pc = "idle" /\ fn = "points_on_x_axis" /\ omega[1] = 0) =>
    points = << <<-Omega0[2], Omega0[1]>>, <<Omega0[2], Omega0[1]>> >>

\* the x > 0 of the grid with 1/|x| + omega^2 x^2/2 = Omega0
PositiveRoots ==
  {x \in {Rat(n, d) : n \in 1..2, d \in 1..10} :
     Add(<<x[2], x[1]>>, Div(Mul(Mul(omega, omega), Mul(x, x)), Whole(2)))
       = Omega0}

Sorted(p) == \A j \in 1..(Len(p) - 1) : ~Less(p[j + 1], p[j])

\* a step that runs points_on_x_axis
PointsStep == pc = "idle" /\ fn' = "points_on_x_axis"

\* C10: a call with omega != 0 leaves the vector sorted ascending, longer by
\* two elements for each positive root and, with trimming set and at least
\* two points, shorter by the first and the last; called on an empty vector
\* with two positive roots x1 < x2 it leaves [-x1, x1] with trimming and
\* [-x2, -x1, x1, x2] without, and with one positive root and trimming it
\* leaves the vector empty.
C10_SortedTrimmed ==
  [][(PointsStep /\ omega[1] # 0) =>
       LET n == Len(points) + 2 * Cardinality(PositiveRoots)
       IN  /\ Sorted(points')
           /\ Len(points') = IF trimming' /\ n >= 2 THEN n - 2 ELSE n
           /\ points = << >> =>
                /\ \A x1, x2 \in PositiveRoots :
                     Less(x1, x2) =>
                       points' =
                         IF trimming'
                         THEN << <<-x1[1], x1[2]>>, x1 >>
                         ELSE << <<-x2[1], x2[2]>>, <<-x1[1], x1[2]>>, x1, x2 >>
                /\ (Cardinality(PositiveRoots) = 1 /\ trimming') =>
                     points' = << >>]_vars

\* points_on_x_axis(points, 7/2, 3, true) has left the innermost pair
C10_Witness ==
  /\ pc = "idle" /\ fn = "points_on_x_axis" /\ trimming
  /\ Omega0 = <<7, 2>> /\ omega = Whole(3)
  /\ points = << <<-1, 3>>, <<1, 3>> >>

\* C11: a call with omega != 0 whose cubic has no strictly positive real root
\* adds no point, so that it leaves the caller's empty vector empty, with
\* trimming and without.
C11_NoPositiveRoot ==
  [][(PointsStep /\ omega[1] # 0 /\ PositiveRoots = {}) =>
       /\ Len(points') <= Len(points)
       /\ points = << >> => points' = << >>]_vars

\* points_on_x_axis(points, 1, 2, false), the only real root being -1, has
\* left the vector empty
C11_Witness ==
  /\ pc = "idle" /\ fn = "points_on_x_axis" /\ ~trimming
  /\ Omega0 = Whole(1) /\ omega = Whole(2)
  /\ PositiveRoots = {} /\ points = << >>

\* C12: what a call with omega != 0 leaves in the vector depends on
\* (Omega0, omega, trimming) only: it is what the call leaves in an empty
\* vector, whatever the vector held before.
C12_Fresh ==
  [][(PointsStep /\ omega[1] # 0) =>
       \E roots \in solve_cubic(Cubic(Omega0, omega)) :
         points' = points_result(<< >>, Omega0, omega, trimming', roots)]_vars

Pos(x) == x # NaN /\ x[1] > 0

Cube(x) == Mul(x, Mul(x, x))

\* C14: lagrange_point and critical_potential hand back no number exactly
\* when omega == 0; for every omega != 0 they hand back cbrt(omega^2) and
\* 1.5 omega^(2/3), the positive numbers x with x^3 = omega^2 and
\* (2x/3)^3 = omega^2.
C14_NaNSentinel ==
  (pc = "idle" /\ fn \in {"lagrange_point", "critical_potential"}) =>
    /\ ret = NaN <=> omega[1] = 0
    /\ omega[1] # 0 =>
         /\ Pos(ret)
         /\ Cube(IF fn = "lagrange_point" THEN ret
                 ELSE Div(Mul(Whole(2), ret), Whole(3))) = Mul(omega, omega)

\* d/dx (1/|x| + omega^2 x^2/2) at x > 0
AxialDerivative(x, om) == Add(Neg(Inv(Mul(x, x))), Mul(Mul(om, om), x))

\* C15: for omega > 0 the derivative of potential_on_x_axis(x, omega) with
\* respect to x vanishes at x = lagrange_point(omega), and
\* critical_potential(omega) is potential_on_x_axis(lagrange_point(omega),
\* omega).
C15_CriticalPoint ==
  (pc = "idle" /\ omega[1] > 0) =>
    /\ fn = "lagrange_point" => AxialDerivative(ret, omega) = Whole(0)
    /\ fn = "critical_potential" =>
         ret = potential_on_x_axis(lagrange_point(omega), omega)

\* C16: pole hands back a height z > 0 with Omega(0, 0, z) = 1/|z| = Omega0,
\* and -1 when there is none, which is when Omega0 <= 0.
C16_Pole ==
  (pc = "idle" /\ fn = "pole") =>
    IF Omega0[1] > 0
    THEN Pos(ret) /\ Inv(<<Abs(ret[1]), ret[2]>>) = Omega0
    ELSE ret = Whole(-1)

\* C20: the integration runs exactly m = 2^LogSteps RK4 steps of size
\* dv = 1/m (the source shifts by 16: 65536 steps), whatever the inputs and
\* the mask: the loop is entered with i = 0, v = 1, s = 0, every step adds 1
\* to i and takes dv from v, so that m - i bounds the steps still to run,
\* v is 1 - i*dv throughout, and the loop is left at i = m and only there,
\* where v = 0, by the return after the final stores.
C20_FixedSteps ==
  /\ [][(pc = "idle" /\ pc' = "rk4") => (i' = 0 /\ v' = One /\ s' = 0)]_vars
  /\ [][(pc = "rk4" /\ pc' = "rk4") =>
          (i < m /\ i' = i + 1 /\ v' = v - dv)]_vars
  /\ [][(pc = "rk4" /\ pc' = "idle") =>
          (i = m /\ v = 0 /\ outcome' = "integrated")]_vars
  /\ [][(pc = "rk4" /\ i = m) => pc' = "idle"]_vars
  /\ [](pc = "rk4" =>
         (i \in 0..m /\ v = One - i * dv /\ (v = 0 <=> i = m)))

\* volume(res, 2, 3/2, 1) stands at the end of the loop after m steps
C20_Witness ==
  /\ pc = "rk4" /\ fn = "volume" /\ choice = 2
  /\ Omega0 = <<3, 2>> /\ omega = Whole(1)
  /\ i = m /\ v = 0

\* a < b for rationals a, b >= 0, by integer parts and reciprocals of the
\* fractional parts
RECURSIVE LessFrac(_, _)
LessFrac(a, b) ==
  LET qa == a[1] \div a[2]
      qb == b[1] \div b[2]
      ra == a[1] % a[2]
      rb == b[1] % b[2]
  IN  IF qa # qb THEN qa < qb
      ELSE IF rb = 0 THEN FALSE
      ELSE IF ra = 0 THEN TRUE
      ELSE LessFrac(<<b[2], rb>>, <<a[2], ra>>)

\* the accumulator Vol the loop of volume leaves after m steps from step k
RECURSIVE VolumeLoop(_, _, _, _, _)
VolumeLoop(tf, k, v0, s0, V0) ==
  IF k = m THEN V0
  ELSE LET n == volume_rk4(tf, TRUE, FALSE, v0, s0, V0, 0)
       IN  VolumeLoop(tf, k + 1, v0 - dv, n[1], n[2])

\* what volume(res, 1, Om, om) stores in res[0], t <= 8/27
VolumeOf(Om, om) ==
  LET r == volume_regime(1, Om, om)
  IN  IF r = "closed_form" THEN volume_sphere(Om)[1]
      ELSE IF r = "series" THEN volume_series(Om, om)[1]
      ELSE volume_scaled(Om, VolumeLoop(ToFix(t_of(Om, om)), 0, One, 0, 0),
                         0)[1]

\* the pairs with the caller's omega, a larger Omega0 and t <= 8/27
Above ==
  {p \in Pairs : /\ p[2] = omega /\ Less(Omega0, p[1])
                 /\ volume_regime(1, p[1], p[2]) # "no_solution"}

\* C19: a call of volume that stored dVolume/dOmega0 stored a strictly
\* negative number, in the closed form, the series and the integration, and
\* the volume it stored for (Omega0, omega) is strictly larger than the
\* volume the function computes for every larger Omega0 at the same omega,
\* also when the two lie on different sides of t = 0.1.
C19_Monotone ==
  (Returned /\ fn = "volume") =>
    /\ 1 \in wrote => res[1][1] < 0
    /\ 0 \in wrote =>
         \A p \in Above : LessFrac(VolumeOf(p[1], p[2]), res[0])

\* the caller's t on the fixed-point grid
T == ToFix(t_of(Omega0, omega))

\* 1 - t q sqrt(q), q = v^2 + s, at the stage state z = <<v, s>>
Den(z) ==
  LET q == FMul(z[1], z[1]) + z[2]
  IN  One - FMul(T, FMul(q, FSqrt(q)))

\* ds/dv = 2 v/(1 - t q sqrt(q)) at the stage state z
Slope(z) == FDiv(2 * z[1], Den(z))

\* the four stage states of the classical RK4 step from (v, s):
\* (v, s), (v - dv/2, s + k0/2), (v - dv/2, s + k1/2), (v - dv, s + k2)
Stages ==
  LET z0 == <<v, s>>
      z1 == <<v - dv \div 2, s + RDiv(FMul(dv, Slope(z0)), 2)>>
      z2 == <<v - dv \div 2, s + RDiv(FMul(dv, Slope(z1)), 2)>>
      z3 == <<v - dv, s + FMul(dv, Slope(z2))>>
  IN  <<z0, z1, z2, z3>>

\* (k0 + 2 k1 + 2 k2 + k3)/6 for the stage values k
Sixth(k) == RDiv(k[1] + 2 * k[2] + 2 * k[3] + k[4], 6)

\* the integrands of the area, the volume and the derivative at z
AreaIntegrand(z) == FSqrt(z[2] + RDiv(FMul(Slope(z), Slope(z)), 4))

VolumeIntegrand(z) == z[2]

DerivativeIntegrand(z) ==
  LET q == FMul(z[1], z[1]) + z[2]
      f == FMul(q, FSqrt(q))
  IN  z[2] + FDiv(FMul(FMul(T, z[2]), f), Den(z))

\* a step that runs one iteration of the loop
LoopStep == pc = "rk4" /\ pc' = "rk4" /\ i' = i + 1

\* C21: an iteration of either loop is one classical RK4 step: s advances
\* by (k0 + 2 k1 + 2 k2 + k3)/6 of the increments dv * ds/dv at the four
\* stage states, every requested accumulator advances by the same weights
\* of dv times its own integrand at the same four stage states, and an
\* accumulator that is not requested stays as it is.
C21_ClassicalRK4 ==
  [][LoopStep =>
       LET z == Stages
           inc(g(_)) == Sixth([j \in 1..4 |-> FMul(dv, g(z[j]))])
       IN  /\ s' = s + inc(Slope)
           /\ fn = "area_volume" =>
                /\ A' = A + (IF Bit1(choice) THEN inc(AreaIntegrand) ELSE 0)
                /\ V' = V + (IF Bit2(choice) THEN inc(VolumeIntegrand) ELSE 0)
           /\ fn = "volume" =>
                /\ Vol' = Vol +
                     (IF Bit1(choice) THEN inc(VolumeIntegrand) ELSE 0)
                /\ dVoldOmega' = dVoldOmega +
                     (IF Bit2(choice) THEN inc(DerivativeIntegrand) ELSE 0)]_vars

\* area_volume(av, 3, 7/2, 3) has run two iterations of its loop
C21_Witness ==
  /\ pc = "rk4" /\ fn = "area_volume" /\ choice = 3 /\ i = 2
  /\ Omega0 = <<7, 2>> /\ omega = Whole(3)
  /\ s > 0 /\ A > 0 /\ V > 0

\* C22: in the loop (0.1 <= t <= 8/27) the denominator 1 - t (v^2 + s)^(3/2)
\* is strictly positive at each of the four stage states of every
\* iteration, the last stage of the last iteration at t == 8/27 included.
C22_PositiveDenominator ==
  (pc = "rk4" /\ i < m) => \A j \in 1..4 : Den(Stages[j]) > 0

\* a[0] + t (a[1] + t (... + t a[n])) for the fixed-point coefficients a
Nested(a, tf) ==
  LET h[k \in 1..Len(a)] ==
        IF k = Len(a) THEN a[k] ELSE a[k] + FMul(tf, h[k + 1])
  IN  h[1]

\* the polynomial of a table of literals and its term-by-term derivative
PolynomialOf(tab, tf) == Nested([k \in 1..Len(tab) |-> LitFix(tab[k])], tf)

DerivativeOf(tab, tf) ==
  Nested([k \in 1..(Len(tab) - 1) |-> k * LitFix(tab[k + 1])], tf)

\* a call has left by the analytic approximation
BySeries == Returned /\ outcome = "series"

\* C23: in the series regime area = (4 pi/Omega0^2) A(t) and
\* volume = (4 pi/(3 Omega0^3)) V(t), A and V the nested (Horner)
\* evaluation of tables of 11 coefficients; both tables start with 1, so
\* that the formulas at t = 0 are the closed form of omega == 0, and the
\* volume table of area_volume is that of volume, entry by entry.
C23_Series ==
  /\ Len(area_a) = 11 /\ Len(area_volume_a) = 11 /\ Len(volume_a) = 11
  /\ area_a[1] = <<1, 0, 0>> /\ volume_a[1] = <<1, 0, 0>>
  /\ \A k \in 1..11 : area_volume_a[k] = volume_a[k]
  /\ area_volume_series(Omega0, Whole(0)) = area_volume_sphere(Omega0)
  /\ volume_series(Omega0, Whole(0)) = volume_sphere(Omega0)
  /\ BySeries =>
       LET area == Div(Mul(Whole(4), FromFix(PolynomialOf(area_a, T))),
                       Mul(Omega0, Omega0))
           vol(tab) == Div(Mul(Whole(4), FromFix(PolynomialOf(tab, T))),
                           Mul(Whole(3), Cube(Omega0)))
       IN  /\ fn = "area_volume" =>
                /\ Bit1(choice) => av[0] = area
                /\ Bit2(choice) => av[1] = vol(area_volume_a)
           /\ (fn = "volume" /\ Bit1(choice)) => res[0] = vol(volume_a)

\* area_volume(av, 3, 21/2, 10) has stored the area and the volume of the
\* series
C23_Witness ==
  /\ BySeries /\ fn = "area_volume" /\ choice = 3 /\ wrote = {0, 1}
  /\ Omega0 = <<21, 2>> /\ omega = Whole(10)
  /\ av[0] \notin Stale /\ av[1] \notin Stale

\* C24: in the series regime dVolume/dOmega0 is
\* -3 (4 pi/(3 Omega0^3)) (V(t) + t V'(t))/Omega0, where V' is the
\* term-by-term derivative of the volume polynomial: the coefficient of
\* t^(k-1) is k a[k], k = 1..10.
C24_SeriesDerivative ==
  (BySeries /\ fn = "volume" /\ Bit2(choice)) =>
    LET f == Div(Whole(4), Mul(Whole(3), Cube(Omega0)))
        sum == PolynomialOf(volume_a, T) + FMul(T, DerivativeOf(volume_a, T))
    IN  res[1] = Div(Mul(Mul(Whole(-3), f), FromFix(sum)), Omega0)

\* volume(res, 2, 21/2, 10) has stored the derivative of the series
C24_Witness ==
  /\ BySeries /\ fn = "volume" /\ choice = 2 /\ wrote = {1}
  /\ Omega0 = <<21, 2>> /\ omega = Whole(10)
  /\ res[1] \notin Stale /\ res[1][1] < 0

\* the accumulators <<A, V>> and <<Vol, dVoldOmega>> the loops leave after
\* m steps from step k at fixed-point t
RECURSIVE AreaVolumeLoop(_, _, _, _, _, _)
AreaVolumeLoop(tf, k, v0, s0, A0, V0) ==
  IF k = m THEN <<A0, V0>>
  ELSE LET n == area_volume_rk4(tf, TRUE, TRUE, v0, s0, A0, V0)
       IN  AreaVolumeLoop(tf, k + 1, v0 - dv, n[1], n[2], n[3])

RECURSIVE DerivativeLoop(_, _, _, _, _, _)
DerivativeLoop(tf, k, v0, s0, V0, D0) ==
  IF k = m THEN <<V0, D0>>
  ELSE LET n == volume_rk4(tf, TRUE, TRUE, v0, s0, V0, D0)
       IN  DerivativeLoop(tf, k + 1, v0 - dv, n[1], n[2], n[3])

\* x and y differ by no more than one unit of the grid per step
Near(x, y) == Abs(x - y) <= m

\* C25: after the loop area = 4 pi A/Omega0^2, volume = 2 pi V/Omega0^3 in
\* both functions and dVolume/dOmega0 = -3 (2 pi/Omega0^3) D/Omega0 for the
\* accumulators A, V, D the loop leaves; at t = 0 the loops leave A = 1,
\* V = 2/3 and D = 2/3, which gives the closed form of omega == 0.
C25_Rescaled ==
  /\ [][(pc = "rk4" /\ pc' = "idle") =>
          LET f == Div(Whole(2), Cube(Omega0))
          IN  /\ fn = "area_volume" =>
                   /\ Bit1(choice) =>
                        av'[0] = Div(Mul(Whole(4), FromFix(A)),
                                     Mul(Omega0, Omega0))
                   /\ Bit2(choice) => av'[1] = Mul(f, FromFix(V))
              /\ fn = "volume" =>
                   /\ Bit1(choice) => res'[0] = Mul(f, FromFix(Vol))
                   /\ Bit2(choice) =>
                        res'[1] = Div(Mul(Mul(Whole(-3), f),
                                          FromFix(dVoldOmega)), Omega0)]_vars
  /\ [](LET a == AreaVolumeLoop(0, 0, One, 0, 0, 0)
             d == DerivativeLoop(0, 0, One, 0, 0, 0)
         IN  /\ Near(a[1], One) /\ Near(3 * a[2], 2 * One)
             /\ Near(3 * d[1], 2 * One) /\ Near(3 * d[2], 2 * One))

\* volume(res, 3, 2, 1) has stored both numbers after the loop
C25_Witness ==
  /\ Returned /\ fn = "volume" /\ outcome = "integrated" /\ choice = 3
  /\ Omega0 = Whole(2) /\ omega = Whole(1) /\ wrote = {0, 1}
  /\ res[0][1] > 0 /\ res[1][1] < 0

\* s after k steps of the loop for the caller's pair, whatever the mask
Trajectory ==
  LET step(k, s0) ==
        LET v0 == One - k * dv
            z0 == <<v0, s0>>
            k0 == FMul(dv, Slope(z0))
            z1 == <<v0 - dv \div 2, s0 + RDiv(k0, 2)>>
            k1 == FMul(dv, Slope(z1))
            z2 == <<v0 - dv \div 2, s0 + RDiv(k1, 2)>>
            k2 == FMul(dv, Slope(z2))
            z3 == <<v0 - dv, s0 + k2>>
            k3 == FMul(dv, Slope(z3))
        IN  s0 + Sixth(<<k0, k1, k2, k3>>)
      tr[k \in 0..m] == IF k = 0 THEN 0 ELSE step(k - 1, tr[k - 1])
  IN  tr

\* C26: the value written for a requested field does not depend on the
\* other bits of the mask: a call that writes a slot which an earlier call
\* for the same pair has written, under whatever mask, writes the same
\* value again, in area_volume and in volume, and s after k steps of the
\* loop is the same for every non-empty mask.
C26_MaskIndependent ==
  /\ [][(pc' = "idle" /\ fn' \in Geometry) =>
          \A j \in wrote' :
            /\ (fn' = "area_volume" /\ av[j] \notin Stale) => av'[j] = av[j]
            /\ (fn' = "volume" /\ res[j] \notin Stale) => res'[j] = res[j]]_vars
  /\ [](pc = "rk4" => s = Trajectory[i])

\* area_volume(av, 2, 7/2, 3) has integrated and stored the volume once
\* more, next to an area that an earlier call with another mask stored
C26_Witness ==
  /\ Returned /\ fn = "area_volume" /\ outcome = "integrated"
  /\ Omega0 = <<7, 2>> /\ omega = Whole(3)
  /\ choice = 2 /\ wrote = {1} /\ av[0] \notin Stale /\ av[1] \notin Stale

\* C27: for Omega0 > 0 and omega > 0 the domain check of area_volume and
\* of volume accepts the pair (t <= 8/27) exactly when
\* Omega0 >= critical_potential(omega), and t == 8/27 exactly when
\* Omega0 == critical_potential(omega).
C27_DomainCritical ==
  (pc = "idle" /\ fn = "critical_potential"
     /\ Omega0[1] > 0 /\ omega[1] > 0) =>
    /\ area_volume_regime(3, Omega0, omega) # "no_solution"
         <=> ~Less(Omega0, ret)
    /\ volume_regime(3, Omega0, omega) # "no_solution"
         <=> ~Less(Omega0, ret)
    /\ (~TGreater(8, 27) /\ ~TLess(8, 27)) <=> Omega0 = ret

\* the bucket nodes chained from node n on
RECURSIVE Chain(_)
Chain(n) ==
  IF n = NULL THEN << >> ELSE <<n>> \o Chain(bucket_heap[n].next)

\* the nodes of the table, bucket by bucket
Entries(b) == {Chain(GUI_wt.bucket[b])[k] : k \in 1..Len(Chain(GUI_wt.bucket[b]))}

AllEntries == UNION {Entries(b) : b \in 0..(GUI_WT_HASH_BUCKETS - 1)}

\* the name a node is registered under
NameOf(n) == widget_heap[bucket_heap[n].widget].name

\* the call that has just returned added name with a widget
AddStep ==
  /\ gcall'.fn = "gui_widget_add" /\ gcall'.gtk # NULL
  /\ Len(widget_heap') = Len(widget_heap) + 1

\* C28: in a live table no two entries have the same name and every entry
\* sits in bucket gui_widget_hash(name), which is below
\* GUI_WT_HASH_BUCKETS; a commit of a widget whose name is present changes
\* neither the buckets nor the nodes, so that the name still leads to the
\* widget registered first, and reports SUCCESS.
C28_UniqueNames ==
  /\ [](\A name \in Names : gui_widget_hash(name) < GUI_WT_HASH_BUCKETS)
  /\ [](GUI_wt.live = "live" =>
         /\ \A b \in 0..(GUI_WT_HASH_BUCKETS - 1) :
              \A n \in Entries(b) : gui_widget_hash(NameOf(n)) = b
         /\ \A n1, n2 \in AllEntries : NameOf(n1) = NameOf(n2) => n1 = n2)
  /\ [][(AddStep /\ \E n \in AllEntries : NameOf(n) = gcall'.name) =>
          /\ GUI_wt' = GUI_wt /\ bucket_heap' = bucket_heap
          /\ gui_widget_commit(GUI_wt, bucket_heap, widget_heap',
                                Len(widget_heap')).status = SUCCESS
          /\ gret' = SUCCESS]_vars

\* "a" and "aaa" share a bucket, and a second widget named "a" was turned
\* away
C28_Witness ==
  /\ GUI_wt.live = "live" /\ gpc = "idle"
  /\ gcall = [fn |-> "gui_widget_add", name |-> <<97>>, gtk |-> 1]
  /\ Len(widget_heap) = 3 /\ Len(bucket_heap) = 2
  /\ widget_heap[1].name = <<97>> /\ widget_heap[2].name = <<97, 97, 97>>
  /\ widget_heap[3].name = <<97>>
  /\ Len(Chain(GUI_wt.bucket[gui_widget_hash(<<97>>)])) = 2

\* the first widget allocated under name
FirstNamed(name) ==
  LET ws == {w \in 1..Len(widget_heap) : widget_heap[w].name = name}
  IN  CHOOSE w \in ws : \A x \in ws : w <= x

\* C29: gui_widget_lookup(name) hands back a widget exactly when an earlier
\* gui_widget_add(name, gtk != NULL, ...) has returned SUCCESS since the
\* table was initialized, and then the widget registered under that name;
\* gui_widget_add with a NULL gtk returns -1 and leaves the table as it is.
C29_Lookup ==
  /\ []((gpc = "idle" /\ gcall.fn = "gui_widget_lookup") =>
         /\ gret # NULL <=> gcall.name \in added
         /\ gret # NULL =>
              /\ widget_heap[gret].name = gcall.name
              /\ widget_heap[gret].gtk # NULL
              /\ gret = FirstNamed(gcall.name)
              /\ \E n \in AllEntries : bucket_heap[n].widget = gret)
  /\ []((gcall.fn = "gui_widget_add" /\ gcall.gtk # NULL) =>
         (gret = SUCCESS /\ gcall.name \in added))
  /\ []((gcall.fn = "gui_widget_add" /\ gcall.gtk = NULL) => gret = -1)
  /\ [][(gcall'.fn = "gui_widget_add" /\ gcall'.gtk = NULL) =>
          UNCHANGED <<GUI_wt, widget_heap, bucket_heap, added>>]_vars

\* the lookup of "a" has walked past "aaa" at the head of their bucket, and
\* "aa" was never put into the table
C29_Witness ==
  /\ gpc = "idle"
  /\ gcall = [fn |-> "gui_widget_lookup", name |-> <<97>>, gtk |-> NULL]
  /\ gret = 1
  /\ Len(bucket_heap) = 2 /\ GUI_wt.bucket[gui_widget_hash(<<97>>)] = 2
  /\ NameOf(2) = <<97, 97, 97>> /\ <<97, 97>> \notin added

\* iterations and index steps gui_free_widgets has still to run
Remaining ==
  (GUI_WT_HASH_BUCKETS - gi) +
    Cardinality({n \in 1..Len(bucket_heap) : bucket_heap[n].freed = 0})

\* C30: gui_free_widgets terminates (every step of its loops lowers
\* Remaining, and it returns when i reaches the number of buckets); it
\* never frees a widget or a bucket node twice; when it releases the table
\* every bucket is empty and every bucket node and every widget that was
\* registered has been freed exactly once.
C30_FreesAll ==
  /\ [](/\ \A w \in 1..Len(widget_heap) : widget_heap[w].freed <= 1
        /\ \A n \in 1..Len(bucket_heap) : bucket_heap[n].freed <= 1
        /\ gpc = "free" => gi \in 0..GUI_WT_HASH_BUCKETS)
  /\ [][(gpc = "free" /\ gpc' = "free") =>
          (Remaining' < Remaining /\ Remaining' >= 0)]_vars
  /\ [][(gpc = "free" /\ gi = GUI_WT_HASH_BUCKETS) => gpc' = "idle"]_vars
  /\ [][(gpc = "free" /\ gpc' = "idle") =>
          /\ GUI_wt.bucket = NoBuckets
          /\ \A n \in 1..Len(bucket_heap) :
               /\ bucket_heap[n].freed = 1
               /\ widget_heap[bucket_heap[n].widget].freed = 1
          /\ GUI_wt'.live = "freed" /\ gret' = SUCCESS]_vars

\* a table of three widgets, two of them in one bucket, has been freed
C30_Witness ==
  /\ gpc = "idle" /\ GUI_wt.live = "freed"
  /\ gcall.fn = "gui_free_widgets" /\ gret = SUCCESS
  /\ Len(bucket_heap) = 3
  /\ \E n \in 1..3 : bucket_heap[n].next # NULL

====
